---- MODULE Spec2Model ----
(***************************************************************************)
(* A model of the calculator generator: the two front ends (the generate   *)
(* command and the interactive wizard) that build a CalculatorConfig, and  *)
(* Generator.Generate, which validates the configuration, renders the      *)
(* Python script and writes the script and requirements.txt.               *)
(***************************************************************************)
EXTENDS Integers, Sequences, FiniteSets, TLC

(***************************************************************************)
(* Bounds of the model.                                                    *)
(***************************************************************************)
\* most names read from the --libraries and --features lists in one run
MaxNames == 2
\* most wizard prompts answered with something else than Enter
MaxAnswers == 2
\* most names in the --libraries and --features lists together (SpecResolve)
MaxListLen == 2
\* the largest precision SpecValidate tries (the smallest is -1)
MaxPrecisionInput == 22
\* seconds the wall clock may advance
MaxClock == 1
\* most Generate calls one generator handle makes
MaxCalls == 2
\* most library and feature flags on and switches off in a configuration of SpecRender
MaxOptions == 3

(***************************************************************************)
(* CalculatorConfig: Libraries and Features are kept as the set of the     *)
(* bool fields that are true.                                              *)
(***************************************************************************)
BasicCalculator == "basic"
ScientificCalculator == "scientific"

LibraryFields == {"UseNumpy", "UsePandas", "UseScipy", "UseMath", "UseSympy", "UsePlotly"}

FeatureFields ==
    {"BasicArithmetic", "History", "Memory",
     "Trigonometric", "Logarithmic", "Exponential", "Statistical",
     "LinearAlgebra", "Calculus", "Plotting", "UnitConversion", "ComplexNumbers",
     "EquationSolver", "MatrixOperations", "DataAnalysis", "Graphing", "Programming"}

GetDefaultConfig ==
    [Type        |-> BasicCalculator,
     OutputFile  |-> "calculator.py",
     ProjectName |-> "Python Calculator",
     Author      |-> "Calculator Generator",
     Description |-> "A customizable calculator application",
     Interactive |-> TRUE,
     Libraries   |-> {"UseMath"},
     Features    |-> {"BasicArithmetic"},
     UI          |-> [Style |-> "cli", Theme |-> "light", ShowHelp |-> TRUE,
                      ShowBanner |-> TRUE, Precision |-> 10, AngleUnit |-> "degrees"]]

ScientificDescription == "A scientific calculator with advanced mathematical functions"
BasicDescription == "A basic calculator with essential arithmetic operations"

GetScientificConfig ==
    [GetDefaultConfig EXCEPT
        !.Type = ScientificCalculator,
        !.Description = ScientificDescription,
        !.Libraries = @ \cup {"UseNumpy", "UseScipy", "UseSympy"},
        !.Features = @ \cup {"Trigonometric", "Logarithmic", "Exponential", "Statistical",
                             "LinearAlgebra", "ComplexNumbers", "History", "Memory"}]

\* a bool field set from a bool value: on adds the field, off removes it
SetField(set, field, on) == IF on THEN set \cup {field} ELSE set \ {field}

(***************************************************************************)
(* Paths: filepath.Dir and filepath.Join on the paths the model uses.      *)
(***************************************************************************)
Dir(path) ==
    CASE path = "" -> "."
      [] path = "calculator.py" -> "."
      [] path = "sci.py" -> "."
      [] path = "out/calc.py" -> "out"
      [] OTHER -> "."

Join(dir, name) ==
    CASE dir = "." -> name
      [] dir = "out" /\ name = "requirements.txt" -> "out/requirements.txt"
      [] OTHER -> name

RequirementsPath(outputFile) == Join(Dir(outputFile), "requirements.txt")

(***************************************************************************)
(* The generate command (cmd/generate.go).  flags is viper's view of the   *)
(* command line; the --libraries and --features lists are read one name    *)
(* at a time.                                                              *)
(***************************************************************************)

\* strings.TrimSpace(strings.ToLower(s)) on the raw names the model feeds in
Normalize(raw) ==
    CASE raw = " NumPy" -> "numpy"
      [] raw = "TRIG " -> "trig"
      [] raw = "Plotting" -> "plotting"
      [] OTHER -> raw

\* the switch of applyLibrariesFromFlags: the field a known name sets, "" for the default case
LibraryCase(lib) ==
    CASE lib = "numpy" -> "UseNumpy"
      [] lib = "pandas" -> "UsePandas"
      [] lib = "scipy" -> "UseScipy"
      [] lib = "sympy" -> "UseSympy"
      [] lib = "plotly" -> "UsePlotly"
      [] lib = "math" -> "UseMath"
      [] OTHER -> ""

\* the switch of applyFeaturesFromFlags: the feature field a label sets, "" for the default case
FeatureCase(feature) ==
    CASE feature \in {"basic-arithmetic", "arithmetic"} -> "BasicArithmetic"
      [] feature \in {"trigonometric", "trig"} -> "Trigonometric"
      [] feature \in {"logarithmic", "log"} -> "Logarithmic"
      [] feature \in {"exponential", "exp"} -> "Exponential"
      [] feature \in {"statistical", "stats"} -> "Statistical"
      [] feature \in {"linear-algebra", "linalg"} -> "LinearAlgebra"
      [] feature \in {"calculus"} -> "Calculus"
      [] feature \in {"plotting", "plot"} -> "Plotting"
      [] feature \in {"unit-conversion", "units"} -> "UnitConversion"
      [] feature \in {"complex-numbers", "complex"} -> "ComplexNumbers"
      [] feature \in {"equation-solver", "solver"} -> "EquationSolver"
      [] feature \in {"matrix-operations", "matrix"} -> "MatrixOperations"
      [] feature \in {"data-analysis", "data"} -> "DataAnalysis"
      [] feature \in {"graphing", "graph"} -> "Graphing"
      [] feature \in {"programming", "prog"} -> "Programming"
      [] feature \in {"memory", "mem"} -> "Memory"
      [] feature \in {"history", "hist"} -> "History"
      [] OTHER -> ""

\* FeatureCaseLibraries with the data-analysis case forgetting UseNumpy
FeatureCaseLibrariesNoNumpy(field) ==
    CASE field \in {"Trigonometric", "Logarithmic", "Exponential"} -> {"UseMath"}
      [] field \in {"Statistical", "LinearAlgebra", "MatrixOperations"} -> {"UseNumpy"}
      [] field \in {"Calculus", "EquationSolver"} -> {"UseSympy"}
      [] field \in {"Plotting", "Graphing"} -> {"UsePlotly"}
      [] field = "DataAnalysis" -> {"UsePandas"}
      [] OTHER -> {}

\* the library fields the case of a feature field sets to true
FeatureCaseLibraries(field) ==
    CASE field \in {"Trigonometric", "Logarithmic", "Exponential"} -> {"UseMath"}
      [] field \in {"Statistical", "LinearAlgebra", "MatrixOperations"} -> {"UseNumpy"}
      [] field \in {"Calculus", "EquationSolver"} -> {"UseSympy"}
      [] field \in {"Plotting", "Graphing"} -> {"UsePlotly"}
      [] field = "DataAnalysis" -> {"UsePandas", "UseNumpy"}
      [] OTHER -> {}

\* one iteration of the loop of applyLibrariesFromFlags
ApplyLibraryName(c, raw) ==
    LET field == LibraryCase(Normalize(raw)) IN
    IF field = "" THEN [config |-> c, err |-> "unknown library"]
    ELSE [config |-> [c EXCEPT !.Libraries = @ \cup {field}], err |-> ""]

\* ApplyFeatureName with the feature field toggled instead of set
ApplyFeatureNameToggle(c, raw) ==
    LET field == FeatureCase(Normalize(raw)) IN
    IF field = "" THEN [config |-> c, err |-> "unknown feature"]
    ELSE [config |-> [c EXCEPT !.Features = IF field \in @ THEN @ \ {field} ELSE @ \cup {field},
                               !.Libraries = @ \cup FeatureCaseLibraries(field)],
          err |-> ""]

\* ApplyFeatureName with each case assigning the third-party libraries afresh
ApplyFeatureNameLastWins(c, raw) ==
    LET field == FeatureCase(Normalize(raw)) IN
    IF field = "" THEN [config |-> c, err |-> "unknown feature"]
    ELSE [config |-> [c EXCEPT !.Features = @ \cup {field},
                               !.Libraries = IF FeatureCaseLibraries(field) = {} THEN @
                                             ELSE (@ \cap {"UseMath"})
                                                  \cup FeatureCaseLibraries(field)],
          err |-> ""]

\* one iteration of the loop of applyFeaturesFromFlags
ApplyFeatureName(c, raw) ==
    LET field == FeatureCase(Normalize(raw)) IN
    IF field = "" THEN [config |-> c, err |-> "unknown feature"]
    ELSE [config |-> [c EXCEPT !.Features = @ \cup {field},
                               !.Libraries = @ \cup FeatureCaseLibraries(field)],
          err |-> ""]

RECURSIVE applyLibrariesFromFlags(_, _)
\* the whole loop: list is the split --libraries string, <<>> for the empty string
applyLibrariesFromFlags(c, list) ==
    IF list = <<>> THEN [config |-> c, err |-> ""]
    ELSE LET r == ApplyLibraryName(c, Head(list)) IN
         IF r.err # "" THEN r ELSE applyLibrariesFromFlags(r.config, Tail(list))

RECURSIVE applyFeaturesFromFlags(_, _)
applyFeaturesFromFlags(c, list) ==
    IF list = <<>> THEN [config |-> c, err |-> ""]
    ELSE LET r == ApplyFeatureName(c, Head(list)) IN
         IF r.err # "" THEN r ELSE applyFeaturesFromFlags(r.config, Tail(list))

\* buildConfigFromFlags: the default configuration overwritten by the flags
buildConfigFromFlags(f) ==
    [GetDefaultConfig EXCEPT
        !.ProjectName = f.name,
        !.Author = f.author,
        !.OutputFile = f.output,
        !.Description = IF f.description = ""
                        THEN (IF f.type = "scientific" THEN ScientificDescription
                              ELSE BasicDescription)
                        ELSE f.description,
        !.Interactive = f.interactive,
        !.Libraries = SetField(@, "UseMath", f.math),
        !.Features = SetField(SetField(@, "Memory", f.memory), "History", f.history),
        !.UI = [Style |-> f.style, Theme |-> f.theme, ShowHelp |-> f.showHelp,
                ShowBanner |-> f.showBanner, Precision |-> f.precision,
                AngleUnit |-> f.angleUnit]]

\* the type switch of runGenerate: the configuration it leaves, err for the default case
TypeSwitch(f) ==
    CASE f.type = "basic" ->
            [config |-> [buildConfigFromFlags(f) EXCEPT !.Type = BasicCalculator], err |-> ""]
      [] f.type = "scientific" ->
            \* config = GetScientificConfig(); config = buildConfigFromFlags(): the second
            \* assignment replaces the first
            LET config1 == GetScientificConfig
                config2 == buildConfigFromFlags(f)
            IN [config |-> [config2 EXCEPT !.Type = ScientificCalculator], err |-> ""]
      [] OTHER -> [config |-> buildConfigFromFlags(f), err |-> "invalid calculator type"]

hasExternalLibraries(c) ==
    c.Libraries \cap {"UseNumpy", "UsePandas", "UseScipy", "UseSympy", "UsePlotly"} # {}


(***************************************************************************)
(* Generator (internal/generator.go) and GUIGenerator                      *)
(* (internal/gui_generator.go): the pure part.  A script is the record of  *)
(* what the template renders; a fragment is named by the Python            *)
(* definitions it holds.                                                   *)
(***************************************************************************)
Opt(cond, seq) == IF cond THEN seq ELSE <<>>

Has(set, field) == field \in set

\* the elements of a slice
Range(seq) == {seq[i] : i \in DOMAIN seq}

\* validateConfig with the lower precision bound off by one
validateConfigOffByOne(c) ==
    IF c.OutputFile = "" THEN "output_file"
    ELSE IF c.ProjectName = "" THEN "project_name"
    ELSE IF c.UI.Precision < 0 \/ c.UI.Precision > 20 THEN "precision"
    ELSE ""

\* validateConfig: "" for nil, else the Field of the ValidationError
validateConfig(c) ==
    IF c.OutputFile = "" THEN "output_file"
    ELSE IF c.ProjectName = "" THEN "project_name"
    ELSE IF c.UI.Precision < 1 \/ c.UI.Precision > 20 THEN "precision"
    ELSE ""

\* generateImports with the plotly imports keyed by the library flag alone
generateImportsLibraryOnly(c) ==
    <<"import sys", "import os">>
    \o Opt(Has(c.Libraries, "UseMath"), <<"import math">>)
    \o Opt(Has(c.Features, "History"), <<"import json", "from datetime import datetime">>)
    \o Opt(Has(c.Libraries, "UseNumpy"), <<"import numpy as np">>)
    \o Opt(Has(c.Libraries, "UsePandas"), <<"import pandas as pd">>)
    \o Opt(Has(c.Libraries, "UseScipy"),
           <<"import scipy as sp", "from scipy import stats, optimize, integrate">>)
    \o Opt(Has(c.Libraries, "UseSympy"),
           <<"import sympy as sym",
             "from sympy import symbols, solve, diff, integrate as sym_integrate">>)
    \o Opt(Has(c.Libraries, "UsePlotly"),
           <<"import plotly.graph_objects as go", "import plotly.express as px">>)
    \o Opt(Has(c.Features, "ComplexNumbers"), <<"import cmath">>)

generateImports(c) ==
    <<"import sys", "import os">>
    \o Opt(Has(c.Libraries, "UseMath"), <<"import math">>)
    \o Opt(Has(c.Features, "History"), <<"import json", "from datetime import datetime">>)
    \o Opt(Has(c.Libraries, "UseNumpy"), <<"import numpy as np">>)
    \o Opt(Has(c.Libraries, "UsePandas"), <<"import pandas as pd">>)
    \o Opt(Has(c.Libraries, "UseScipy"),
           <<"import scipy as sp", "from scipy import stats, optimize, integrate">>)
    \o Opt(Has(c.Libraries, "UseSympy"),
           <<"import sympy as sym",
             "from sympy import symbols, solve, diff, integrate as sym_integrate">>)
    \o Opt(Has(c.Libraries, "UsePlotly") \/ Has(c.Features, "Plotting"),
           <<"import plotly.graph_objects as go", "import plotly.express as px">>)
    \o Opt(Has(c.Features, "ComplexNumbers"), <<"import cmath">>)

generateBasicArithmetic == <<"add", "subtract", "multiply", "divide", "power", "modulo">>
\* generateMemoryFunctions returning no fragment
generateMemoryFunctionsNone == <<>>
generateMemoryFunctions == <<"Memory">>
generateHistoryFunctions == <<"History">>
generateTrigonometricFunctions == <<"sin", "cos", "tan", "asin", "acos", "atan">>
generateLogarithmicFunctions == <<"log", "ln", "log10", "log2">>
generateStatisticalFunctions == <<"mean", "median", "std", "variance", "correlation">>
generateLinearAlgebraFunctions ==
    <<"matrix_multiply", "matrix_inverse", "matrix_determinant", "eigenvalues">>
generatePlottingFunctions == <<"plot_function", "plot_data">>
generateEquationSolverFunctions == <<"solve_equation", "differentiate", "integrate_symbolic">>

generateFunctions(c) ==
    Opt(Has(c.Features, "BasicArithmetic"), generateBasicArithmetic)
    \o Opt(Has(c.Features, "Memory"), generateMemoryFunctions)
    \o Opt(Has(c.Features, "History"), generateHistoryFunctions)
    \o Opt(Has(c.Features, "Trigonometric"), generateTrigonometricFunctions)
    \o Opt(Has(c.Features, "Logarithmic"), generateLogarithmicFunctions)
    \o Opt(Has(c.Features, "Statistical") /\ Has(c.Libraries, "UseNumpy"),
           generateStatisticalFunctions)
    \o Opt(Has(c.Features, "LinearAlgebra") /\ Has(c.Libraries, "UseNumpy"),
           generateLinearAlgebraFunctions)
    \o Opt(Has(c.Features, "Plotting") /\ Has(c.Libraries, "UsePlotly"),
           generatePlottingFunctions)
    \o Opt(Has(c.Features, "EquationSolver") /\ Has(c.Libraries, "UseSympy"),
           generateEquationSolverFunctions)

\* generateFunctions by predicate: the if statements whose fragment is appended, in order
FunctionPredicates(c) ==
    Opt(Has(c.Features, "BasicArithmetic"), <<"BasicArithmetic">>)
    \o Opt(Has(c.Features, "Memory"), <<"Memory">>)
    \o Opt(Has(c.Features, "History"), <<"History">>)
    \o Opt(Has(c.Features, "Trigonometric"), <<"Trigonometric">>)
    \o Opt(Has(c.Features, "Logarithmic"), <<"Logarithmic">>)
    \o Opt(Has(c.Features, "Statistical") /\ Has(c.Libraries, "UseNumpy"), <<"Statistical">>)
    \o Opt(Has(c.Features, "LinearAlgebra") /\ Has(c.Libraries, "UseNumpy"),
           <<"LinearAlgebra">>)
    \o Opt(Has(c.Features, "Plotting") /\ Has(c.Libraries, "UsePlotly"), <<"Plotting">>)
    \o Opt(Has(c.Features, "EquationSolver") /\ Has(c.Libraries, "UseSympy"),
           <<"EquationSolver">>)

\* generateGUIFunctions by predicate, likewise
GUIFunctionPredicates(c) ==
    Opt(Has(c.Features, "BasicArithmetic"), <<"BasicArithmetic">>)
    \o Opt(Has(c.Features, "Trigonometric"), <<"Trigonometric">>)
    \o Opt(Has(c.Features, "Logarithmic"), <<"Logarithmic">>)
    \o Opt(Has(c.Features, "Statistical") /\ Has(c.Libraries, "UseNumpy"), <<"Statistical">>)
    \o Opt(Has(c.Features, "Memory"), <<"Memory">>)
    \o Opt(Has(c.Features, "History"), <<"History">>)

\* the names evaluate_expression binds in safe_dict
SafeDict(c) ==
    {"__builtins__", "abs", "round", "min", "max"}
    \cup (IF Has(c.Libraries, "UseMath")
          THEN {"sqrt", "pi", "e"}
               \cup (IF Has(c.Features, "Trigonometric")
                     THEN {"sin", "cos", "tan", "asin", "acos", "atan"} ELSE {})
               \cup (IF Has(c.Features, "Logarithmic")
                     THEN {"log", "ln", "log10", "log2"} ELSE {})
          ELSE {})
    \cup (IF Has(c.Libraries, "UseNumpy")
          THEN {"np", "array", "mean", "median", "std"} ELSE {})

\* the Python expression safe_dict binds to each name
SafeDictValue(name) ==
    CASE name = "__builtins__" -> "{}"
      [] name \in {"abs", "round", "min", "max"} -> name
      [] name = "sqrt" -> "math.sqrt"
      [] name = "pi" -> "math.pi"
      [] name = "e" -> "math.e"
      [] name \in {"sin", "cos", "tan", "asin", "acos", "atan"} -> "lambda"
      [] name \in {"log", "ln", "log10", "log2"} -> name
      [] name = "np" -> "np"
      [] name = "array" -> "np.array"
      [] name \in {"mean", "median", "std"} -> name

\* the module an import line binds, and the name it binds it to
ImportedModule(line) ==
    CASE line = "import sys" -> "sys"
      [] line = "import os" -> "os"
      [] line = "import math" -> "math"
      [] line = "import json" -> "json"
      [] line = "import numpy as np" -> "np"
      [] line = "import pandas as pd" -> "pd"
      [] line = "import scipy as sp" -> "sp"
      [] line = "import sympy as sym" -> "sym"
      [] line = "import plotly.graph_objects as go" -> "go"
      [] line = "import plotly.express as px" -> "px"
      [] line = "import cmath" -> "cmath"
      [] OTHER -> ""

\* generateMainContent: the Calculator class, piece by piece in the order written
generateMainContent(c) ==
    [class      |-> "Calculator",
     precision  |-> c.UI.Precision,
     angle_unit |-> c.UI.AngleUnit,
     attrs      |-> Opt(Has(c.Features, "Memory"), <<"self.memory">>)
                    \o Opt(Has(c.Features, "History"), <<"self.history">>),
     run        |-> Opt(c.UI.ShowBanner, <<"self.show_banner()">>)
                    \o Opt(c.Interactive, <<"self.interactive_mode()">>),
     branches   |-> Opt(c.Interactive,
                        <<"quit", "help", "clear">>
                        \o Opt(Has(c.Features, "Memory"), <<"mem">>)
                        \o Opt(Has(c.Features, "History"), <<"hist">>)
                        \o <<"evaluate">>
                        \o Opt(Has(c.Features, "History"), <<"history.add_entry">>)),
     methods    |-> <<"__init__", "format_result", "run">>
                    \o Opt(c.Interactive, <<"interactive_mode">>)
                    \o Opt(c.UI.ShowBanner, <<"show_banner">>)
                    \o Opt(c.UI.ShowHelp, <<"show_help">>)
                    \o <<"evaluate_expression">>
                    \o Opt(Has(c.Features, "Memory"), <<"handle_memory_commands">>)
                    \o Opt(Has(c.Features, "History"), <<"handle_history_commands">>),
     banner     |-> Opt(c.UI.ShowBanner, <<c.ProjectName, c.Description>>),
     help       |-> Opt(c.UI.ShowHelp,
                        <<"Basic operations", "Functions">>
                        \o Opt(Has(c.Features, "Memory"), <<"Memory">>)
                        \o Opt(Has(c.Features, "History"), <<"History">>)
                        \o <<"Other">>),
     safe_dict  |-> SafeDict(c)]

\* time.Now().Format("2006-01-02 15:04:05"): the wall clock to the second
FormatTime(t) == <<"Generated", t>>

\* prepareTemplateData at wall-clock second now
prepareTemplateData(c, now) ==
    [Config      |-> c,
     Imports     |-> generateImports(c),
     Functions   |-> generateFunctions(c),
     MainContent |-> generateMainContent(c),
     Version     |-> "1.0.0",
     Timestamp   |-> FormatTime(now)]

\* renderTemplate: header, imports, functions, main content, entry stanza
renderTemplate(data) ==
    [Header      |-> [ProjectName |-> data.Config.ProjectName,
                      Description |-> data.Config.Description,
                      Author      |-> data.Config.Author,
                      Version     |-> data.Version,
                      Generated   |-> data.Timestamp],
     Imports     |-> data.Imports,
     Functions   |-> data.Functions,
     MainContent |-> data.MainContent,
     Entry       |-> <<"calculator = Calculator()", "calculator.run()">>]

\* generateGUIImports with the math import appended again under the math flag
generateGUIImportsMathTwice(c) ==
    <<"import tkinter as tk", "from tkinter import ttk, messagebox, simpledialog",
      "import math", "import sys", "import os">>
    \o Opt(Has(c.Libraries, "UseMath"), <<"import math">>)
    \o Opt(Has(c.Features, "History"), <<"import json", "from datetime import datetime">>)
    \o Opt(Has(c.Libraries, "UseNumpy"), <<"import numpy as np">>)
    \o Opt(Has(c.Libraries, "UsePandas"), <<"import pandas as pd">>)
    \o Opt(Has(c.Libraries, "UseScipy"),
           <<"import scipy as sp", "from scipy import stats, optimize, integrate">>)
    \o Opt(Has(c.Libraries, "UseSympy"),
           <<"import sympy as sym",
             "from sympy import symbols, solve, diff, integrate as sym_integrate">>)
    \o Opt(Has(c.Libraries, "UsePlotly") \/ Has(c.Features, "Plotting"),
           <<"import plotly.graph_objects as go", "import plotly.express as px">>)
    \o Opt(Has(c.Features, "ComplexNumbers"), <<"import cmath">>)

generateGUIImports(c) ==
    <<"import tkinter as tk", "from tkinter import ttk, messagebox, simpledialog",
      "import math", "import sys", "import os">>
    \o Opt(Has(c.Features, "History"), <<"import json", "from datetime import datetime">>)
    \o Opt(Has(c.Libraries, "UseNumpy"), <<"import numpy as np">>)
    \o Opt(Has(c.Libraries, "UsePandas"), <<"import pandas as pd">>)
    \o Opt(Has(c.Libraries, "UseScipy"),
           <<"import scipy as sp", "from scipy import stats, optimize, integrate">>)
    \o Opt(Has(c.Libraries, "UseSympy"),
           <<"import sympy as sym",
             "from sympy import symbols, solve, diff, integrate as sym_integrate">>)
    \o Opt(Has(c.Libraries, "UsePlotly") \/ Has(c.Features, "Plotting"),
           <<"import plotly.graph_objects as go", "import plotly.express as px">>)
    \o Opt(Has(c.Features, "ComplexNumbers"), <<"import cmath">>)

\* the names safe_eval of the GUI script binds in safe_dict (the fragment of
\* generateBasicArithmeticFunctions; no name when the fragment is left out)
GUISafeDict(c) ==
    IF Has(c.Features, "BasicArithmetic")
    THEN {"__builtins__", "abs", "round", "min", "max", "sqrt", "pi", "e",
          "sin", "cos", "tan", "asin", "acos", "atan",
          "log", "ln", "log10", "exp", "pow"}
    ELSE {}

generateGUIFunctions(c) ==
    Opt(Has(c.Features, "BasicArithmetic"), <<"safe_eval">>)
    \o Opt(Has(c.Features, "Trigonometric"), <<"deg_to_rad", "rad_to_deg">>)
    \o Opt(Has(c.Features, "Logarithmic"), <<"safe_log">>)
    \o Opt(Has(c.Features, "Statistical") /\ Has(c.Libraries, "UseNumpy"),
           <<"calculate_stats">>)
    \o Opt(Has(c.Features, "Memory"), <<"MemoryManager">>)
    \o Opt(Has(c.Features, "History"), <<"HistoryManager">>)

\* the buttons of each conditional group create_widgets builds, in dict order
GroupButtons(group) ==
    CASE group = "trig_buttons" -> <<"sin", "cos", "tan">>
      [] group = "log_buttons" -> <<"log", "ln">>
      [] group = "mem_buttons" -> <<"MS", "MR", "MC">>

\* the grid calls of "for text, button in group.items()": one column per button from col
GridGroup(group, row, col) ==
    {[group |-> group, button |-> GroupButtons(group)[i], row |-> row, column |-> col + i - 1] :
        i \in DOMAIN GroupButtons(group)}

\* generateBasicLayout: the conditional groups it grids, and the row of the clear buttons
generateBasicLayout(c) ==
    LET row1 == IF Has(c.Features, "Memory") THEN 1 ELSE 0 IN
    [name    |-> "basic",
     columns |-> 4,
     placed  |-> IF Has(c.Features, "Memory") THEN GridGroup("mem_buttons", 0, 0) ELSE {},
     clear   |-> row1]

\* generateScientificLayout: memory row, trigonometric row, the logarithmic buttons at
\* row - 1 from column 3, then the clear buttons
generateScientificLayout(c) ==
    LET row1 == IF Has(c.Features, "Memory") THEN 1 ELSE 0
        row2 == IF Has(c.Features, "Trigonometric") THEN row1 + 1 ELSE row1
    IN
    [name    |-> "scientific",
     columns |-> 6,
     placed  |-> (IF Has(c.Features, "Memory") THEN GridGroup("mem_buttons", 0, 0) ELSE {})
                 \cup (IF Has(c.Features, "Trigonometric")
                       THEN GridGroup("trig_buttons", row1, 0) ELSE {})
                 \cup (IF Has(c.Features, "Logarithmic")
                       THEN GridGroup("log_buttons", row2 - 1, 3) ELSE {}),
     clear   |-> row2]

\* the grid calls both layouts make for the fixed buttons, from the row of the clear
\* buttons on: CE C / 7 8 9 / / 4 5 6 * / 1 2 3 - / 0 (two columns) . + / = (four columns)
GridStandard(row) ==
    LET At(button, r, col, span) ==
            [group |-> "standard", button |-> button, row |-> r, column |-> col, span |-> span]
    IN {At("CE", row, 0, 1), At("C", row, 1, 1),
        At("7", row + 1, 0, 1), At("8", row + 1, 1, 1), At("9", row + 1, 2, 1),
        At("/", row + 1, 3, 1),
        At("4", row + 2, 0, 1), At("5", row + 2, 1, 1), At("6", row + 2, 2, 1),
        At("*", row + 2, 3, 1),
        At("1", row + 3, 0, 1), At("2", row + 3, 1, 1), At("3", row + 3, 2, 1),
        At("-", row + 3, 3, 1),
        At("0", row + 4, 0, 2), At(".", row + 4, 2, 1), At("+", row + 4, 3, 1),
        At("=", row + 5, 0, 4)}

\* every grid call of a layout: the conditional groups and the fixed buttons
GridCalls(layout) == layout.placed \cup GridStandard(layout.clear)

\* the columns a grid call covers
GridColumns(g) ==
    IF "span" \in DOMAIN g THEN g.column .. (g.column + g.span - 1) ELSE {g.column}

\* generateGUIMainContent: the CalculatorGUI class, by the pieces the configuration decides
generateGUIMainContent(c) ==
    [class        |-> "CalculatorGUI",
     title        |-> c.ProjectName,
     precision    |-> c.UI.Precision,
     angle_unit   |-> c.UI.AngleUnit,
     attrs        |-> Opt(Has(c.Features, "Memory"), <<"self.memory">>)
                      \o Opt(Has(c.Features, "History"), <<"self.history">>),
     menu         |-> Has(c.Features, "Memory") \/ Has(c.Features, "History")
                      \/ Has(c.Features, "Statistical"),
     buttonGroups |-> Opt(Has(c.Features, "Trigonometric"), <<"trig_buttons">>)
                      \o Opt(Has(c.Features, "Logarithmic"), <<"log_buttons">>)
                      \o Opt(Has(c.Features, "Memory"), <<"mem_buttons">>),
     layout       |-> IF c.Type = ScientificCalculator
                      THEN generateScientificLayout(c) ELSE generateBasicLayout(c),
     degreeRewrite |-> Has(c.Features, "Trigonometric"),
     theme        |-> IF c.UI.Theme = "dark" THEN "dark" ELSE "light",
     about        |-> <<c.ProjectName, c.Author, c.Description>>,
     \* the content ends with def main() and the __main__ stanza that calls it
     entry        |-> <<"calculator = CalculatorGUI()", "calculator.run()">>]

\* prepareGUITemplateData: Timestamp is left at its zero value, the empty string
prepareGUITemplateData(c) ==
    [Config      |-> c,
     Imports     |-> generateGUIImports(c),
     Functions   |-> generateGUIFunctions(c),
     MainContent |-> generateGUIMainContent(c),
     Version     |-> "1.0.0",
     Timestamp   |-> <<>>]

\* renderGUITemplate: the same header and sections; the entry stanza is part of the main content
renderGUITemplate(data) ==
    [Header      |-> [ProjectName |-> data.Config.ProjectName,
                      Description |-> data.Config.Description,
                      Author      |-> data.Config.Author,
                      Version     |-> data.Version,
                      Generated   |-> data.Timestamp],
     Imports     |-> data.Imports,
     Functions   |-> data.Functions,
     MainContent |-> data.MainContent,
     Entry       |-> <<>>]

\* the methods the Calculator class calls on itself and the classes it instantiates
CalledNames(c) ==
    (IF Has(c.Features, "Memory") THEN {"Memory"} ELSE {})
    \cup (IF Has(c.Features, "History") THEN {"History"} ELSE {})
    \cup (IF c.UI.ShowBanner THEN {"show_banner"} ELSE {})
    \cup (IF c.Interactive
          THEN {"interactive_mode", "show_help", "evaluate_expression", "format_result"}
               \cup (IF Has(c.Features, "Memory") THEN {"handle_memory_commands"} ELSE {})
               \cup (IF Has(c.Features, "History") THEN {"handle_history_commands"} ELSE {})
          ELSE {})

\* the methods and top-level definitions of the CLI script
DefinedNames(c) == Range(generateMainContent(c).methods) \cup Range(generateFunctions(c))

\* the methods the CalculatorGUI class calls or hands to a widget as its command, the
\* top-level functions it calls and the classes it instantiates
GUICalledNames(c) ==
    LET menu == Has(c.Features, "Memory") \/ Has(c.Features, "History")
                \/ Has(c.Features, "Statistical")
    IN {"create_widgets", "create_buttons", "setup_layout", "setup_bindings", "apply_theme",
        "calculate", "format_result", "update_display", "safe_eval"}
       \cup (IF Has(c.Features, "Memory")
             THEN {"MemoryManager", "memory_store", "memory_recall", "memory_clear"} ELSE {})
       \cup (IF Has(c.Features, "History") THEN {"HistoryManager"} ELSE {})
       \cup (IF menu THEN {"create_menu", "show_about"} ELSE {})
       \cup (IF menu /\ Has(c.Features, "Statistical") THEN {"show_stats_dialog"} ELSE {})
       \cup (IF menu /\ Has(c.Features, "History") THEN {"show_history", "clear_history"}
             ELSE {})
       \cup (IF Has(c.Features, "Statistical") THEN {"calculate_stats"} ELSE {})

\* the methods of CalculatorGUI and the top-level definitions of the GUI script
GUIDefinedNames(c) ==
    {"__init__", "create_widgets", "create_buttons", "setup_layout", "setup_bindings",
     "on_key_press", "append_number", "append_operator", "append_function", "calculate",
     "format_result", "clear", "clear_entry", "backspace", "update_display",
     "apply_theme", "show_about", "run"}
    \cup (IF Has(c.Features, "Memory")
          THEN {"memory_store", "memory_recall", "memory_clear"} ELSE {})
    \cup (IF Has(c.Features, "Memory") \/ Has(c.Features, "History")
             \/ Has(c.Features, "Statistical")
          THEN {"create_menu"} ELSE {})
    \cup (IF Has(c.Features, "Statistical") THEN {"show_stats_dialog"} ELSE {})
    \cup (IF Has(c.Features, "History") THEN {"show_history", "clear_history"} ELSE {})
    \cup Range(generateGUIFunctions(c))

\* the sections of a rendered script in the order the two templates lay them out: the
\* docstring header, the import lines, the function fragments, the main content and the
\* __main__ stanza (in the template for the CLI, at the end of the main content for the GUI)
SectionOrder(script) ==
    <<"header", "imports", "functions", "main">>
    \o (IF script.Entry # <<>> THEN <<"entry">>
        ELSE IF "entry" \in DOMAIN script.MainContent THEN <<"entry">>
        ELSE <<>>)

GenerateGUICalculator(c) == renderGUITemplate(prepareGUITemplateData(c))

\* RenderScript with the GUI renderer chosen for every style but cli
RenderScriptUnlessCli(c, now) ==
    LET data == prepareTemplateData(c, now) IN
    IF c.UI.Style # "cli" THEN GenerateGUICalculator(c) ELSE renderTemplate(data)

\* the script Generate renders for c at wall-clock second now
RenderScript(c, now) ==
    LET data == prepareTemplateData(c, now) IN
    IF c.UI.Style = "gui" THEN GenerateGUICalculator(c) ELSE renderTemplate(data)

\* the lines generateRequirements collects
Requirements(c) ==
    Opt(Has(c.Libraries, "UseNumpy"), <<"numpy>=1.21.0">>)
    \o Opt(Has(c.Libraries, "UsePandas"), <<"pandas>=1.3.0">>)
    \o Opt(Has(c.Libraries, "UseScipy"), <<"scipy>=1.7.0">>)
    \o Opt(Has(c.Libraries, "UseSympy"), <<"sympy>=1.9.0">>)
    \o Opt(Has(c.Libraries, "UsePlotly") \/ Has(c.Features, "Plotting"), <<"plotly>=5.0.0">>)
    \o Opt(c.UI.Style = "gui", <<"# tkinter (included with Python)">>)

(***************************************************************************)
(* The state.                                                              *)
(***************************************************************************)
VARIABLES
    frontend,   \* "generate" | "interactive" | "api": who calls Generate
    flags,      \* the command line as viper returns it (generate command)
    config,     \* the front end's CalculatorConfig under construction
    pc,         \* the front end's position
    idx,        \* the wizard's position in its feature and library tables
    names,      \* names read so far from --libraries and --features
    answered,   \* wizard prompts answered with something else than Enter
    cmdErr,     \* the error the front end returned, "" for none
    printed,    \* the messages the front end printed after Generate
    gen,        \* the Generator handles: configuration, position, error, rendered text
    fs,         \* the files: path -> content
    clock,      \* the wall clock, in seconds
    calls,      \* Generate calls made so far
    rendered,   \* the scripts rendered so far, each with the configuration it was rendered from
    args,       \* Resolve/Validate: the inputs of the pure function under check
    out         \* Resolve/Validate: its results

vars == <<frontend, flags, config, pc, idx, names, answered, cmdErr, printed,
          gen, fs, clock, calls, rendered, args, out>>

Procs == {1, 2}

\* the output paths the model uses, and their requirements.txt
OutputPaths == {"calculator.py", "sci.py", "out/calc.py"}
Paths == OutputPaths \cup {RequirementsPath(o) : o \in OutputPaths}

Absent == [kind |-> "absent"]
\* a file that was there before the run
OldFile == [kind |-> "old"]
\* what a failed os.WriteFile may leave: the file opened with O_TRUNC, the content not written
Truncated == [kind |-> "truncated"]
ScriptFile(script) == [kind |-> "script", body |-> script]
RequirementsFile(lines) == [kind |-> "requirements", body |-> lines]

NoScript == [Header |-> <<>>]

\* NewGenerator(config), before Generate is called
NewGenerator(c) ==
    [config |-> c, pc |-> "new", err |-> "", content |-> NoScript, wrote |-> {}]

IdleGenerator == [NewGenerator(GetDefaultConfig) EXCEPT !.pc = "none"]

(***************************************************************************)
(* Generator.Generate, for handle p.                                       *)
(***************************************************************************)

\* GeneratePrepare with the validation error not returned
GeneratePrepareNoReturn(p) ==
    /\ gen[p].pc = "new"
    /\ LET c == gen[p].config IN
       /\ gen' = [gen EXCEPT ![p].pc = "write",
                             ![p].content = RenderScript(c, clock)]
       /\ rendered' = rendered \cup {[config |-> c, content |-> RenderScript(c, clock)]}
    /\ calls' = calls + 1
    /\ UNCHANGED <<frontend, flags, config, pc, idx, names, answered, cmdErr, printed,
                   fs, clock, args, out>>

\* Generate is entered: validateConfig, then prepareTemplateData and the renderer
GeneratePrepare(p) ==
    /\ gen[p].pc = "new"
    /\ LET c == gen[p].config
           verr == validateConfig(c)
       IN IF verr # ""
          THEN /\ gen' = [gen EXCEPT ![p].pc = "returned",
                                     ![p].err = "configuration validation failed"]
               /\ rendered' = rendered
          ELSE /\ gen' = [gen EXCEPT ![p].pc = "write",
                                     ![p].content = RenderScript(c, clock)]
               /\ rendered' = rendered \cup {[config |-> c, content |-> RenderScript(c, clock)]}
    /\ calls' = calls + 1
    /\ UNCHANGED <<frontend, flags, config, pc, idx, names, answered, cmdErr, printed,
                   fs, clock, args, out>>

\* WriteToFileOk with the script left unwritten
WriteToFileSkipped(p) ==
    /\ gen[p].pc = "write"
    /\ fs' = fs
    /\ gen' = [gen EXCEPT ![p].pc = "requirements"]
    /\ UNCHANGED <<frontend, flags, config, pc, idx, names, answered, cmdErr, printed,
                   clock, calls, rendered, args, out>>

\* writeToFile succeeds: MkdirAll, then os.WriteFile
WriteToFileOk(p) ==
    /\ gen[p].pc = "write"
    /\ fs' = [fs EXCEPT ![gen[p].config.OutputFile] = ScriptFile(gen[p].content)]
    /\ gen' = [gen EXCEPT ![p].pc = "requirements",
                          ![p].wrote = @ \cup {gen[p].config.OutputFile}]
    /\ UNCHANGED <<frontend, flags, config, pc, idx, names, answered, cmdErr, printed,
                   clock, calls, rendered, args, out>>

\* WriteToFileFail with Generate going on to generateRequirements after the error
WriteToFileFailNoReturn(p) ==
    /\ gen[p].pc = "write"
    /\ \E touched \in BOOLEAN :
         /\ fs' = IF touched
                  THEN [fs EXCEPT ![gen[p].config.OutputFile] = Truncated]
                  ELSE fs
         /\ gen' = [gen EXCEPT ![p].pc = "requirements",
                               ![p].err = "file writing failed",
                               ![p].wrote = IF touched
                                            THEN @ \cup {gen[p].config.OutputFile}
                                            ELSE @]
    /\ UNCHANGED <<frontend, flags, config, pc, idx, names, answered, cmdErr, printed,
                   clock, calls, rendered, args, out>>

\* writeToFile fails: MkdirAll fails or the file cannot be opened (nothing changes),
\* or the write fails after the file was truncated
WriteToFileFail(p) ==
    /\ gen[p].pc = "write"
    /\ \E touched \in BOOLEAN :
         /\ fs' = IF touched
                  THEN [fs EXCEPT ![gen[p].config.OutputFile] = Truncated]
                  ELSE fs
         /\ gen' = [gen EXCEPT ![p].pc = "returned",
                               ![p].err = "file writing failed",
                               ![p].wrote = IF touched
                                            THEN @ \cup {gen[p].config.OutputFile}
                                            ELSE @]
    /\ UNCHANGED <<frontend, flags, config, pc, idx, names, answered, cmdErr, printed,
                   clock, calls, rendered, args, out>>

\* generateRequirements: nothing to write, or requirements.txt written beside the script
GenerateRequirementsOk(p) ==
    /\ gen[p].pc = "requirements"
    /\ LET c == gen[p].config
           requirements == Requirements(c)
           requirementsPath == RequirementsPath(c.OutputFile)
       IN IF Len(requirements) = 0
          THEN /\ fs' = fs
               /\ gen' = [gen EXCEPT ![p].pc = "returned"]
          ELSE /\ fs' = [fs EXCEPT ![requirementsPath] = RequirementsFile(requirements)]
               /\ gen' = [gen EXCEPT ![p].pc = "returned",
                                     ![p].wrote = @ \cup {requirementsPath}]
    /\ UNCHANGED <<frontend, flags, config, pc, idx, names, answered, cmdErr, printed,
                   clock, calls, rendered, args, out>>

\* generateRequirements: os.WriteFile of requirements.txt fails
GenerateRequirementsFail(p) ==
    /\ gen[p].pc = "requirements"
    /\ Len(Requirements(gen[p].config)) > 0
    /\ LET requirementsPath == RequirementsPath(gen[p].config.OutputFile) IN
       \E touched \in BOOLEAN :
         /\ fs' = IF touched THEN [fs EXCEPT ![requirementsPath] = Truncated] ELSE fs
         /\ gen' = [gen EXCEPT ![p].pc = "returned",
                               ![p].err = "requirements generation failed",
                               ![p].wrote = IF touched THEN @ \cup {requirementsPath} ELSE @]
    /\ UNCHANGED <<frontend, flags, config, pc, idx, names, answered, cmdErr, printed,
                   clock, calls, rendered, args, out>>

Generate(p) ==
    \/ GeneratePrepare(p)
    \/ WriteToFileOk(p)
    \/ WriteToFileFail(p)
    \/ GenerateRequirementsOk(p)
    \/ GenerateRequirementsFail(p)

(***************************************************************************)
(* runGenerate (cmd/generate.go), handle 1.                                *)
(***************************************************************************)
FrontEndUnchanged == UNCHANGED <<frontend, flags, fs, clock, calls, rendered, args, out>>

\* the raw names the model feeds to --libraries
LibraryInputs == {"numpy", "pandas", "scipy", "sympy", "plotly", "math", " NumPy", "tensorflow"}

\* the raw names the model feeds to --features
FeatureInputs ==
    {"basic-arithmetic", "trigonometric", "logarithmic", "exponential", "statistical",
     "linear-algebra", "calculus", "plotting", "unit-conversion", "complex-numbers",
     "equation-solver", "matrix-operations", "data-analysis", "graphing", "programming",
     "memory", "history",
     "trig", "stats", "solver", "TRIG ", "Plotting", "quantum"}

\* getConfigFromFlags, buildConfigFromFlags and the type switch
CmdBuildConfig ==
    /\ frontend = "generate"
    /\ pc = "start"
    /\ LET r == TypeSwitch(flags) IN
       /\ config' = r.config
       /\ cmdErr' = r.err
       /\ pc' = IF r.err = "" THEN "libraries" ELSE "failed"
    /\ UNCHANGED <<idx, names, answered, printed, gen>>
    /\ FrontEndUnchanged

\* applyLibrariesFromFlags reads the next name of the list
CmdLibrary ==
    /\ frontend = "generate"
    /\ pc = "libraries"
    /\ names < MaxNames
    /\ \E raw \in LibraryInputs :
         LET r == ApplyLibraryName(config, raw) IN
         /\ config' = r.config
         /\ cmdErr' = r.err
         /\ pc' = IF r.err = "" THEN "libraries" ELSE "failed"
    /\ names' = names + 1
    /\ UNCHANGED <<idx, answered, printed, gen>>
    /\ FrontEndUnchanged

\* applyLibrariesFromFlags returns nil: the list is empty or read to its end
CmdLibrariesDone ==
    /\ frontend = "generate"
    /\ pc = "libraries"
    /\ pc' = "features"
    /\ UNCHANGED <<config, idx, names, answered, cmdErr, printed, gen>>
    /\ FrontEndUnchanged

\* CmdFeature with the error of an unknown name not returned: the loop goes on
CmdFeatureErrorNotReturned ==
    /\ frontend = "generate"
    /\ pc = "features"
    /\ names < MaxNames
    /\ \E raw \in FeatureInputs :
         LET r == ApplyFeatureName(config, raw) IN
         /\ config' = r.config
         /\ cmdErr' = r.err
         /\ pc' = "features"
    /\ names' = names + 1
    /\ UNCHANGED <<idx, answered, printed, gen>>
    /\ FrontEndUnchanged

\* applyFeaturesFromFlags reads the next name of the list
CmdFeature ==
    /\ frontend = "generate"
    /\ pc = "features"
    /\ names < MaxNames
    /\ \E raw \in FeatureInputs :
         LET r == ApplyFeatureName(config, raw) IN
         /\ config' = r.config
         /\ cmdErr' = r.err
         /\ pc' = IF r.err = "" THEN "features" ELSE "failed"
    /\ names' = names + 1
    /\ UNCHANGED <<idx, answered, printed, gen>>
    /\ FrontEndUnchanged

\* applyFeaturesFromFlags returns nil; NewGenerator(config) and the call of Generate
CmdFeaturesDone ==
    /\ frontend = "generate"
    /\ pc = "features"
    /\ pc' = "generate"
    /\ gen' = [gen EXCEPT ![1] = NewGenerator(config)]
    /\ UNCHANGED <<config, idx, names, answered, cmdErr, printed>>
    /\ FrontEndUnchanged

\* the messages after a successful Generate (of runGenerate and of runInteractive alike)
SuccessMessages(c) ==
    {"Calculator generated successfully", "Output file"}
    \cup (IF c.UI.Style = "gui" THEN {"Type: Desktop GUI Calculator"}
          ELSE {"Type: Command Line Calculator"})
    \cup (IF hasExternalLibraries(c) THEN {"Requirements file: requirements.txt"} ELSE {})

\* Generate has returned: the error is wrapped and returned, or the messages are printed
Report ==
    /\ frontend \in {"generate", "interactive"}
    /\ pc = "generate"
    /\ gen[1].pc = "returned"
    /\ IF gen[1].err # ""
       THEN /\ cmdErr' = "generation failed"
            /\ pc' = "failed"
            /\ printed' = printed
       ELSE /\ cmdErr' = ""
            /\ pc' = "done"
            /\ printed' = SuccessMessages(config)
    /\ UNCHANGED <<config, idx, names, answered, gen>>
    /\ FrontEndUnchanged

runGenerate ==
    \/ CmdBuildConfig
    \/ CmdLibrary
    \/ CmdLibrariesDone
    \/ CmdFeature
    \/ CmdFeaturesDone

(***************************************************************************)
(* runInteractive (cmd/interactive.go), handle 1.  An answer is the line   *)
(* the user typed; "" is Enter.                                            *)
(***************************************************************************)

\* strings.TrimSpace on the answers the model feeds in
TrimSpace(raw) == IF raw = "   " THEN "" ELSE raw

\* how many of the answers are something else than Enter
Typed(answers) == Cardinality({i \in DOMAIN answers : answers[i] # ""})

\* the table of askFeatures
WizardFeatures ==
    << [field |-> "Memory", dependency |-> ""],
       [field |-> "History", dependency |-> ""],
       [field |-> "Trigonometric", dependency |-> "math"],
       [field |-> "Logarithmic", dependency |-> "math"],
       [field |-> "Statistical", dependency |-> "numpy"],
       [field |-> "LinearAlgebra", dependency |-> "numpy"],
       [field |-> "Plotting", dependency |-> "plotly"],
       [field |-> "EquationSolver", dependency |-> "sympy"],
       [field |-> "ComplexNumbers", dependency |-> ""],
       [field |-> "UnitConversion", dependency |-> ""] >>

\* the switch on feature.dependency in askFeatures
DependencyCase(dependency) ==
    CASE dependency = "numpy" -> {"UseNumpy"}
      [] dependency = "plotly" -> {"UsePlotly"}
      [] dependency = "sympy" -> {"UseSympy"}
      [] dependency = "math" -> {"UseMath"}
      [] OTHER -> {}

\* the table of askLibraries
WizardLibraries == <<"UseNumpy", "UsePandas", "UseScipy", "UseSympy", "UsePlotly">>

YesNoInputs == {"", "y", "n", "maybe"}

\* askProjectInfo: a non-empty answer replaces the name, the author, the description
AskProjectInfo ==
    /\ frontend = "interactive"
    /\ pc = "projectInfo"
    /\ \E name \in {"", "My Calc", "   "}, author \in {"", "Ada"}, description \in {"", "Mine"} :
         /\ answered + Typed(<<name, author, description>>) <= MaxAnswers
         /\ answered' = answered + Typed(<<name, author, description>>)
         /\ config' = [config EXCEPT
                         !.ProjectName = IF TrimSpace(name) # "" THEN TrimSpace(name) ELSE @,
                         !.Author = IF author # "" THEN author ELSE @,
                         !.Description = IF description # "" THEN description ELSE @]
    /\ pc' = "type"
    /\ UNCHANGED <<idx, names, cmdErr, printed, gen>>
    /\ FrontEndUnchanged

\* askCalculatorType: the prompt repeats until the choice is valid
AskCalculatorType ==
    /\ frontend = "interactive"
    /\ pc = "type"
    /\ \E choice \in {"1", "b", "2", "scientific", "3"} :
         CASE choice \in {"1", "basic", "b"} ->
                /\ config' = [config EXCEPT !.Type = BasicCalculator]
                /\ pc' = "features"
           [] choice \in {"2", "scientific", "s"} ->
                /\ config' = [config EXCEPT !.Type = ScientificCalculator,
                                            !.Libraries = GetScientificConfig.Libraries,
                                            !.Features = GetScientificConfig.Features]
                /\ pc' = "features"
           [] OTHER ->
                /\ config' = config
                /\ pc' = "type"
    /\ idx' = 1
    /\ UNCHANGED <<names, answered, cmdErr, printed, gen>>
    /\ FrontEndUnchanged

\* askFeatures: one prompt of the loop over the feature table
AskFeature ==
    /\ frontend = "interactive"
    /\ pc = "features"
    /\ LET feature == WizardFeatures[idx] IN
       \E choice \in YesNoInputs :
         /\ answered + Typed(<<choice>>) <= MaxAnswers
         /\ answered' = answered + Typed(<<choice>>)
         /\ config' =
              IF choice \in {"y", "yes"}
              THEN [config EXCEPT !.Features = @ \cup {feature.field},
                                  !.Libraries = @ \cup DependencyCase(feature.dependency)]
              ELSE IF choice \in {"n", "no"}
              THEN [config EXCEPT !.Features = @ \ {feature.field}]
              ELSE config
    /\ IF idx < Len(WizardFeatures)
       THEN idx' = idx + 1 /\ pc' = "features"
       ELSE idx' = 1 /\ pc' = "libraries"
    /\ UNCHANGED <<names, cmdErr, printed, gen>>
    /\ FrontEndUnchanged

\* askLibraries: one prompt of the loop over the library table
AskLibrary ==
    /\ frontend = "interactive"
    /\ pc = "libraries"
    /\ LET lib == WizardLibraries[idx] IN
       \E choice \in YesNoInputs :
         /\ answered + Typed(<<choice>>) <= MaxAnswers
         /\ answered' = answered + Typed(<<choice>>)
         /\ config' =
              IF choice \in {"y", "yes"}
              THEN [config EXCEPT !.Libraries = @ \cup {lib}]
              ELSE IF choice \in {"n", "no"}
              THEN [config EXCEPT !.Libraries = @ \ {lib}]
              ELSE config
    /\ IF idx < Len(WizardLibraries)
       THEN idx' = idx + 1 /\ pc' = "libraries"
       ELSE idx' = 1 /\ pc' = "ui"
    /\ UNCHANGED <<names, cmdErr, printed, gen>>
    /\ FrontEndUnchanged

\* strconv.Atoi on the precision answers the model feeds in: <<value, ok>>
Atoi(str) ==
    CASE str = "0" -> <<0, TRUE>>
      [] str = "1" -> <<1, TRUE>>
      [] str = "5" -> <<5, TRUE>>
      [] str = "20" -> <<20, TRUE>>
      [] str = "21" -> <<21, TRUE>>
      [] OTHER -> <<0, FALSE>>

\* the precision prompt taking every number Atoi parses
PrecisionAnswerAnyNumber(precisionStr, previous) ==
    IF precisionStr # "" /\ Atoi(precisionStr)[2]
    THEN Atoi(precisionStr)[1] ELSE previous

\* the precision prompt of askUIConfig: a number within 1..20 replaces the precision
PrecisionAnswer(precisionStr, previous) ==
    IF precisionStr # "" /\ Atoi(precisionStr)[2]
          /\ Atoi(precisionStr)[1] >= 1
          /\ Atoi(precisionStr)[1] <= 20
    THEN Atoi(precisionStr)[1] ELSE previous

\* askUIConfig: interactive mode, precision, style, angle unit, banner, help
AskUIConfig ==
    /\ frontend = "interactive"
    /\ pc = "ui"
    /\ \E interactive \in {"", "n"}, precisionStr \in {"", "0", "1", "5", "20", "21", "abc"},
          style \in {"", "1", "gui", "web"}, angle \in {"", "2"},
          banner \in {"", "n"}, help \in {"", "no"} :
         /\ answered + Typed(<<interactive, precisionStr, style, angle, banner, help>>)
               <= MaxAnswers
         /\ answered' = answered
                        + Typed(<<interactive, precisionStr, style, angle, banner, help>>)
         /\ config' =
              [config EXCEPT
                 !.Interactive = IF interactive \in {"n", "no"} THEN FALSE
                                 ELSE IF interactive \in {"y", "yes", ""} THEN TRUE ELSE @,
                 !.UI.Precision = PrecisionAnswer(precisionStr, @),
                 !.UI.Style = IF style \in {"1", "cli", "command", "c"} THEN "cli"
                              ELSE IF style \in {"2", "gui", "desktop", "g"} THEN "gui" ELSE @,
                 !.UI.AngleUnit = IF angle \in {"1", "degrees", "deg"} THEN "degrees"
                                  ELSE IF angle \in {"2", "radians", "rad"} THEN "radians"
                                  ELSE @,
                 !.UI.ShowBanner = IF banner \in {"n", "no"} THEN FALSE
                                   ELSE IF banner \in {"y", "yes", ""} THEN TRUE ELSE @,
                 !.UI.ShowHelp = IF help \in {"n", "no"} THEN FALSE
                                 ELSE IF help \in {"y", "yes", ""} THEN TRUE ELSE @]
    /\ pc' = "output"
    /\ UNCHANGED <<idx, names, cmdErr, printed, gen>>
    /\ FrontEndUnchanged

\* askOutputConfig: a non-empty answer replaces the output file
AskOutputConfig ==
    /\ frontend = "interactive"
    /\ pc = "output"
    /\ \E outputFile \in {"", "out/calc.py", "   "} :
         /\ answered + Typed(<<outputFile>>) <= MaxAnswers
         /\ answered' = answered + Typed(<<outputFile>>)
         /\ config' = [config EXCEPT
                         !.OutputFile = IF TrimSpace(outputFile) # ""
                                        THEN TrimSpace(outputFile) ELSE @]
    /\ pc' = "confirm"
    /\ UNCHANGED <<idx, names, cmdErr, printed, gen>>
    /\ FrontEndUnchanged

\* showSummaryAndConfirm: "n" cancels, anything else calls NewGenerator(config).Generate()
ShowSummaryAndConfirm ==
    /\ frontend = "interactive"
    /\ pc = "confirm"
    /\ \E choice \in {"", "n"} :
         IF choice \in {"n", "no"}
         THEN /\ cmdErr' = "generation cancelled by user"
              /\ pc' = "failed"
              /\ gen' = gen
         ELSE /\ cmdErr' = cmdErr
              /\ pc' = "generate"
              /\ gen' = [gen EXCEPT ![1] = NewGenerator(config)]
    /\ UNCHANGED <<config, idx, names, answered, printed>>
    /\ FrontEndUnchanged

\* reader.ReadString fails at a prompt (end of input): the wizard returns the error
ReadError ==
    /\ frontend = "interactive"
    /\ pc \in {"projectInfo", "type", "features", "libraries", "ui", "output", "confirm"}
    /\ cmdErr' = "EOF"
    /\ pc' = "failed"
    /\ UNCHANGED <<config, idx, names, answered, printed, gen>>
    /\ FrontEndUnchanged

runInteractive ==
    \/ AskProjectInfo
    \/ AskCalculatorType
    \/ AskFeature
    \/ AskLibrary
    \/ AskUIConfig
    \/ AskOutputConfig
    \/ ShowSummaryAndConfirm
    \/ ReadError

(***************************************************************************)
(* Spec: one run of a front end, from the command line or the first prompt *)
(* to the messages after Generate.                                         *)
(***************************************************************************)
DefaultFlags ==
    [type |-> "basic", name |-> "Python Calculator", description |-> "",
     math |-> TRUE, memory |-> FALSE, history |-> FALSE, interactive |-> TRUE,
     style |-> "cli", theme |-> "light", precision |-> 10, angleUnit |-> "degrees",
     showHelp |-> TRUE, showBanner |-> TRUE,
     output |-> "calculator.py", author |-> "Calculator Generator"]

\* the command lines the model starts from
FlagInputs ==
    { [DefaultFlags EXCEPT !.type = t, !.math = m, !.memory = mem, !.style = st,
                           !.precision = v[1], !.output = v[2], !.name = v[3]] :
        t \in {"basic", "scientific", "advanced"}, m \in BOOLEAN, mem \in BOOLEAN,
        st \in {"cli", "gui"},
        v \in { <<10, "calculator.py", "Python Calculator">>,
                <<0, "calculator.py", "Python Calculator">>,
                <<21, "out/calc.py", "Python Calculator">>,
                <<20, "out/calc.py", "">>,
                <<1, "", "Python Calculator">> } }

InitCommon ==
    /\ idx = 1
    /\ names = 0
    /\ answered = 0
    /\ cmdErr = ""
    /\ printed = {}
    /\ gen = [p \in Procs |-> IdleGenerator]
    /\ clock = 0
    /\ calls = 0
    /\ rendered = {}
    /\ out = <<>>

Init ==
    /\ frontend \in {"generate", "interactive"}
    /\ IF frontend = "generate"
       THEN flags \in FlagInputs /\ pc = "start"
       ELSE flags = DefaultFlags /\ pc = "projectInfo"
    \* initConfig: config = internal.GetDefaultConfig()
    /\ config = GetDefaultConfig
    /\ \E old \in BOOLEAN : fs = [path \in Paths |-> IF old THEN OldFile ELSE Absent]
    /\ args = <<>>
    /\ InitCommon

Next ==
    \/ runGenerate
    \/ runInteractive
    \/ Generate(1)
    \/ Report

Spec == Init /\ [][Next]_vars

(***************************************************************************)
(* SpecGen: Generate called directly on two handles whose steps interleave *)
(* (two runs of the tool at the same time).                                *)
(***************************************************************************)
ApiUnchanged == UNCHANGED <<frontend, flags, config, pc, idx, names, answered, cmdErr,
                            printed, args, out>>

\* the configurations handed to NewGenerator
ApiConfigs ==
    { [base EXCEPT !.OutputFile = o, !.UI.Style = st] :
        base \in {GetScientificConfig,
                  [GetDefaultConfig EXCEPT !.Features = @ \cup {"DataAnalysis"},
                                           !.Libraries = @ \cup {"UseNumpy", "UsePandas"}]},
        o \in OutputPaths,
        st \in {"cli", "gui"} }
    \cup { [GetDefaultConfig EXCEPT !.OutputFile = o] : o \in OutputPaths }
    \cup { [GetDefaultConfig EXCEPT !.UI.Precision = 0],
           [GetScientificConfig EXCEPT !.ProjectName = ""] }

\* the second handle's configurations
ApiConfigs2 ==
    { [GetScientificConfig EXCEPT !.OutputFile = "sci.py"],
      [GetDefaultConfig EXCEPT !.OutputFile = "sci.py", !.Libraries = @ \cup {"UsePlotly"}],
      [GetDefaultConfig EXCEPT !.OutputFile = "calculator.py"] }

InitGen ==
    /\ frontend = "api"
    /\ flags = DefaultFlags
    /\ config = GetDefaultConfig
    /\ pc = "api"
    /\ \E c1 \in ApiConfigs, c2 \in ApiConfigs2 :
         gen = [p \in Procs |-> NewGenerator(IF p = 1 THEN c1 ELSE c2)]
    /\ \E old \in BOOLEAN : fs = [path \in Paths |-> IF old THEN OldFile ELSE Absent]
    /\ args = <<>>
    /\ idx = 1
    /\ names = 0
    /\ answered = 0
    /\ cmdErr = ""
    /\ printed = {}
    /\ clock = 0
    /\ calls = 0
    /\ rendered = {}
    /\ out = <<>>

NextGen == \E p \in Procs : Generate(p)

SpecGen == InitGen /\ [][NextGen]_vars

(***************************************************************************)
(* SpecSeq: the tool run again and again, one Generate call after the      *)
(* other, while the wall clock advances.                                   *)
(***************************************************************************)

\* the configurations of the successive runs
SeqConfigs ==
    { GetDefaultConfig,
      [GetDefaultConfig EXCEPT !.OutputFile = "sci.py", !.UI.Style = "gui"],
      [GetScientificConfig EXCEPT !.OutputFile = "sci.py"],
      [GetScientificConfig EXCEPT !.UI.Style = "gui"],
      [GetDefaultConfig EXCEPT !.OutputFile = "out/calc.py", !.Libraries = @ \cup {"UsePlotly"}],
      [GetDefaultConfig EXCEPT !.UI.Precision = 21] }

\* Generate has returned and the tool is run again: NewGenerator(c).Generate()
NextCall ==
    /\ gen[1].pc = "returned"
    /\ calls < MaxCalls
    /\ \E c \in SeqConfigs : gen' = [gen EXCEPT ![1] = NewGenerator(c)]
    /\ UNCHANGED <<fs, clock, calls, rendered>>
    /\ ApiUnchanged

\* a second passes
Tick ==
    /\ clock < MaxClock
    /\ clock' = clock + 1
    /\ UNCHANGED <<gen, fs, calls, rendered>>
    /\ ApiUnchanged

InitSeq ==
    /\ frontend = "api"
    /\ flags = DefaultFlags
    /\ config = GetDefaultConfig
    /\ pc = "api"
    /\ \E c \in SeqConfigs :
         gen = [p \in Procs |-> IF p = 1 THEN NewGenerator(c) ELSE IdleGenerator]
    /\ fs = [path \in Paths |-> Absent]
    /\ args = <<>>
    /\ idx = 1
    /\ names = 0
    /\ answered = 0
    /\ cmdErr = ""
    /\ printed = {}
    /\ clock = 0
    /\ calls = 0
    /\ rendered = {}
    /\ out = <<>>

NextSeq ==
    \/ Generate(1)
    \/ NextCall
    \/ Tick

SpecSeq == InitSeq /\ [][NextSeq]_vars

(***************************************************************************)
(* SpecResolve: the resolution step of runGenerate (applyLibrariesFromFlags *)
(* then applyFeaturesFromFlags) as a function of the configuration and the *)
(* two lists.                                                              *)
(***************************************************************************)

\* lines 94-102 of runGenerate: the configuration left and the error returned
Resolve(c, libraries, features) ==
    LET l == applyLibrariesFromFlags(c, libraries) IN
    IF l.err # "" THEN l ELSE applyFeaturesFromFlags(l.config, features)

RECURSIVE SeqsUpTo(_, _)
\* the sequences over S of length at most n
SeqsUpTo(S, n) ==
    IF n = 0 THEN {<<>>}
    ELSE LET shorter == SeqsUpTo(S, n - 1) IN
         shorter \cup {Append(q, x) : q \in shorter, x \in S}

ResolveFlagInputs ==
    { [DefaultFlags EXCEPT !.type = t, !.math = m, !.memory = mem] :
        t \in {"basic", "scientific"}, m \in BOOLEAN, mem \in BOOLEAN }

InitResolve ==
    /\ frontend = "resolve"
    /\ flags \in ResolveFlagInputs
    /\ config = TypeSwitch(flags).config
    /\ pc = "start"
    /\ \E libraries \in SeqsUpTo(LibraryInputs, MaxListLen) :
         \E features \in SeqsUpTo(FeatureInputs, MaxListLen - Len(libraries)) :
           args = [libraries |-> libraries, features |-> features]
    /\ fs = [path \in Paths |-> Absent]
    /\ InitCommon

\* resolve once, and resolve the result again with the same lists
ResolveTwice ==
    /\ frontend = "resolve"
    /\ pc = "start"
    /\ LET once == Resolve(config, args.libraries, args.features)
           twice == Resolve(once.config, args.libraries, args.features)
       IN out' = [once |-> once, twice |-> twice]
    /\ pc' = "done"
    /\ UNCHANGED <<frontend, flags, config, idx, names, answered, cmdErr, printed,
                   gen, fs, clock, calls, rendered, args>>

NextResolve == ResolveTwice

SpecResolve == InitResolve /\ [][NextResolve]_vars

(***************************************************************************)
(* SpecOrder: the resolution step run on the same names listed in two      *)
(* orders.                                                                 *)
(***************************************************************************)

\* list read in the order p, a permutation of its positions
Reorder(list, p) == [i \in DOMAIN list |-> list[p[i]]]

InitOrder ==
    /\ frontend = "order"
    /\ flags \in ResolveFlagInputs
    /\ config = TypeSwitch(flags).config
    /\ pc = "start"
    /\ \E libraries \in SeqsUpTo(LibraryInputs, MaxListLen) :
         \E features \in SeqsUpTo(FeatureInputs, MaxListLen - Len(libraries)) :
           args = [libraries |-> libraries, features |-> features]
    /\ fs = [path \in Paths |-> Absent]
    /\ InitCommon

\* resolve with the lists as given, and with the same lists reordered
ResolveReordered ==
    /\ frontend = "order"
    /\ pc = "start"
    /\ \E p \in Permutations(DOMAIN args.libraries), q \in Permutations(DOMAIN args.features) :
         LET libraries2 == Reorder(args.libraries, p)
             features2 == Reorder(args.features, q)
         IN out' = [libraries2 |-> libraries2,
                    features2 |-> features2,
                    first |-> Resolve(config, args.libraries, args.features),
                    second |-> Resolve(config, libraries2, features2)]
    /\ pc' = "done"
    /\ UNCHANGED <<frontend, flags, config, idx, names, answered, cmdErr, printed,
                   gen, fs, clock, calls, rendered, args>>

NextOrder == ResolveReordered

SpecOrder == InitOrder /\ [][NextOrder]_vars

(***************************************************************************)
(* SpecValidate: validateConfig as a function of the configuration.        *)
(***************************************************************************)
PrecisionInputs == (0 - 1)..MaxPrecisionInput

InitValidate ==
    /\ frontend = "validate"
    /\ flags = DefaultFlags
    /\ \E precision \in PrecisionInputs, o \in {"", "calculator.py"},
          name \in {"", "Python Calculator"}, base \in {GetDefaultConfig, GetScientificConfig} :
         config = [base EXCEPT !.UI.Precision = precision, !.OutputFile = o,
                               !.ProjectName = name]
    /\ pc = "start"
    /\ fs = [path \in Paths |-> Absent]
    /\ args = <<>>
    /\ InitCommon

\* NewGenerator(config).validateConfig()
Validate ==
    /\ frontend = "validate"
    /\ pc = "start"
    /\ out' = [err |-> validateConfig(config)]
    /\ pc' = "done"
    /\ UNCHANGED <<frontend, flags, config, idx, names, answered, cmdErr, printed,
                   gen, fs, clock, calls, rendered, args>>

NextValidate == Validate

SpecValidate == InitValidate /\ [][NextValidate]_vars

(***************************************************************************)
(* SpecRender: one Generate call on a configuration built through the      *)
(* library API, over the library and feature flags the renderers read, the *)
(* styles (web is one neither renderer names), the two calculator types    *)
(* and the three themes.                                                   *)
(***************************************************************************)

\* the library and feature fields a configuration of SpecRender may have on
RenderOptions ==
    {"UseMath", "UseNumpy", "UsePandas", "UseScipy", "UsePlotly", "UseSympy", "ComplexNumbers",
     "BasicArithmetic", "Trigonometric", "Logarithmic", "Statistical", "LinearAlgebra",
     "Plotting", "EquationSolver", "Memory", "History"}

\* the switches of the configuration (true by default) SpecRender may turn off
RenderSwitches == {"Interactive", "ShowHelp", "ShowBanner"}

RenderConfigs ==
    { [GetDefaultConfig EXCEPT !.Libraries = picked \cap LibraryFields,
                               !.Features = picked \cap FeatureFields,
                               !.Interactive = "Interactive" \notin picked,
                               !.UI.ShowHelp = "ShowHelp" \notin picked,
                               !.UI.ShowBanner = "ShowBanner" \notin picked,
                               !.Type = t, !.UI.Style = st, !.UI.Theme = th] :
        picked \in {s \in SUBSET (RenderOptions \cup RenderSwitches) :
                        Cardinality(s) <= MaxOptions},
        t \in {BasicCalculator, ScientificCalculator},
        st \in {"cli", "gui", "web"},
        th \in {"light", "dark", "colorful"} }

InitRender ==
    /\ frontend = "api"
    /\ flags = DefaultFlags
    /\ config = GetDefaultConfig
    /\ pc = "api"
    /\ \E c \in RenderConfigs :
         gen = [p \in Procs |-> IF p = 1 THEN NewGenerator(c) ELSE IdleGenerator]
    /\ fs = [path \in Paths |-> Absent]
    /\ args = <<>>
    /\ idx = 1
    /\ names = 0
    /\ answered = 0
    /\ cmdErr = ""
    /\ printed = {}
    /\ clock = 0
    /\ calls = 0
    /\ rendered = {}
    /\ out = <<>>

NextRender == Generate(1)

SpecRender == InitRender /\ [][NextRender]_vars

(***************************************************************************)
(* SpecCalculate: the calculate method of a generated GUI script, on the   *)
(* expression the user has entered.  An expression is its sequence of      *)
(* tokens.                                                                 *)
(***************************************************************************)

\* the expressions the model enters
ExpressionInputs ==
    { <<"2", "+", "3">>,
      <<"pi">>,
      <<"sin", "(", "30", ")">>,
      <<"asin", "(", "1", ")">>,
      <<"tan", "(", "45", ")", "*", "2">>,
      <<"sqrt", "(", "4", ")", "+", "cos", "(", "0", ")">>,
      <<"sin", "(", "sqrt", "(", "4", ")", ")">>,
      <<"log", "(", "100", ")">> }

\* the pattern func\( is found at the end of token tok
EndsWith(tok, func) ==
    \/ tok = func
    \/ tok = "asin" /\ func = "sin"
    \/ tok = "acos" /\ func = "cos"
    \/ tok = "atan" /\ func = "tan"

\* the position of the first ")" that closes [^)]+ after the "(" at position open,
\* 0 if the pattern does not match there
FirstClose(expr, open) ==
    LET closers == {j \in (open + 2)..Len(expr) :
                       /\ expr[j] = ")"
                       /\ \A k \in (open + 1)..(j - 1) : expr[k] # ")"}
    IN IF closers = {} THEN 0 ELSE CHOOSE j \in closers : TRUE

RECURSIVE ReSub(_, _, _)
\* re.sub(f'{func}\(([^)]+)\)', replace_trig, expression), from token i on: each match
\* func(angle) becomes func(math.radians(angle))
ReSub(expr, func, i) ==
    IF i > Len(expr) THEN <<>>
    ELSE IF /\ EndsWith(expr[i], func)
            /\ i + 1 <= Len(expr)
            /\ expr[i + 1] = "("
            /\ FirstClose(expr, i + 1) # 0
         THEN LET j == FirstClose(expr, i + 1) IN
              <<expr[i], "(", "math", ".", "radians", "(">>
              \o SubSeq(expr, i + 2, j - 1) \o <<")", ")">> \o ReSub(expr, func, j + 1)
         ELSE <<expr[i]>> \o ReSub(expr, func, i + 1)

\* the expression calculate hands to safe_eval
DegreeRewrite(c, expr) ==
    IF Has(c.Features, "Trigonometric") /\ c.UI.AngleUnit = "degrees"
    THEN ReSub(ReSub(ReSub(expr, "sin", 1), "cos", 1), "tan", 1)
    ELSE expr

\* the names eval looks up in the symbol table: the name tokens that are no attribute
Identifiers(expr) ==
    {expr[i] : i \in {k \in DOMAIN expr :
                        /\ expr[k] \notin {"(", ")", ".", "+", "*", "2", "3", "4", "0", "1",
                                           "30", "45", "100"}
                        /\ (k = 1 \/ expr[k - 1] # ".")}}

CalculateConfigs ==
    { [GetDefaultConfig EXCEPT !.Features = on, !.UI.Style = "gui", !.UI.AngleUnit = unit,
                               !.Type = t] :
        on \in SUBSET {"BasicArithmetic", "Trigonometric", "Logarithmic", "Memory"},
        unit \in {"degrees", "radians"},
        t \in {BasicCalculator, ScientificCalculator} }

InitCalculate ==
    /\ frontend = "calculate"
    /\ flags = DefaultFlags
    /\ config \in CalculateConfigs
    /\ pc = "start"
    /\ \E expression \in ExpressionInputs : args = [expression |-> expression]
    /\ fs = [path \in Paths |-> Absent]
    /\ InitCommon

\* calculate: the rewrite, then safe_eval(expression); unbound holds the names eval
\* does not find in safe_dict
Calculate ==
    /\ frontend = "calculate"
    /\ pc = "start"
    /\ LET expression == DegreeRewrite(config, args.expression) IN
       out' = [expression |-> expression,
               unbound |-> Identifiers(expression) \ GUISafeDict(config)]
    /\ pc' = "done"
    /\ UNCHANGED <<frontend, flags, config, idx, names, answered, cmdErr, printed,
                   gen, fs, clock, calls, rendered, args>>

NextCalculate == Calculate

SpecCalculate == InitCalculate /\ [][NextCalculate]_vars

(***************************************************************************)
(* The claims.                                                             *)
(***************************************************************************)

\* the entailment table of the specification: feature -> implied libraries
EntailmentTable(f) ==
    CASE f \in {"Trigonometric", "Logarithmic", "Exponential"} -> {"UseMath"}
      [] f \in {"Statistical", "LinearAlgebra", "MatrixOperations"} -> {"UseNumpy"}
      [] f = "DataAnalysis" -> {"UseNumpy", "UsePandas"}
      [] f \in {"Plotting", "Graphing"} -> {"UsePlotly"}
      [] f \in {"EquationSolver", "Calculus"} -> {"UseSympy"}
      [] OTHER -> {}

EntailedFeatures == {f \in FeatureFields : EntailmentTable(f) # {}}

\* entailment closure of a configuration
Closed(c) == \A f \in c.Features : EntailmentTable(f) \subseteq c.Libraries

\* handle p has rendered its script in the current call
Rendered(p) == gen[p].pc \in {"write", "requirements", "returned"} /\ gen[p].content # NoScript

\* handle p's call has returned nil
Succeeded(p) == gen[p].pc = "returned" /\ gen[p].err = ""

\* the file at path is the requirements.txt of configuration c
HoldsRequirements(path, c) ==
    /\ fs[path].kind = "requirements"
    /\ fs[path].body = Requirements(c)

\* the file at path is the script text
HoldsScript(path, script) ==
    /\ fs[path].kind = "script"
    /\ fs[path].body = script

\* the front end was asked for a scientific calculator and nothing else
ScientificDefaultsAsked ==
    \/ /\ frontend = "generate"
       /\ flags = [DefaultFlags EXCEPT !.type = "scientific"]
       /\ names = 0
    \/ /\ frontend = "interactive"
       /\ gen[1].config.Type = ScientificCalculator
       /\ answered = 0

\* C1: a calculator generated with type scientific and otherwise default settings
\* imports numpy, scipy, sympy and math and defines the trigonometric, logarithmic
\* and statistical functions, from the generate command as from the wizard.
C1_ScientificDefaults ==
    (ScientificDefaultsAsked /\ Rendered(1)) =>
        /\ {"import numpy as np", "import scipy as sp", "import sympy as sym", "import math"}
              \subseteq Range(gen[1].content.Imports)
        /\ Range(generateTrigonometricFunctions) \subseteq Range(gen[1].content.Functions)
        /\ Range(generateLogarithmicFunctions) \subseteq Range(gen[1].content.Functions)
        /\ Range(generateStatisticalFunctions) \subseteq Range(gen[1].content.Functions)

\* C2: for a fixed configuration, any two Generate calls render the same script text.
C2_Deterministic ==
    \A a \in rendered, b \in rendered : a.config = b.config => a.content = b.content

\* C3: every configuration a front end hands to Generate is closed under entailment.
C3_HandedConfigClosed ==
    (frontend \in {"generate", "interactive"} /\ gen[1].pc # "none") => Closed(gen[1].config)

\* C4: a successful Generate has written requirements.txt if and only if one of
\* numpy, pandas, scipy, sympy, plotly is enabled.
C4_ManifestIffExternalLibrary ==
    Succeeded(1) =>
        (RequirementsPath(gen[1].config.OutputFile) \in gen[1].wrote
            <=> hasExternalLibraries(gen[1].config))

\* C5: two concurrent Generate calls with distinct output paths write disjoint sets
\* of files, and after both succeed each script and each manifest holds its own
\* call's content.
C5_ConcurrentCallsDisjoint ==
    (Succeeded(1) /\ Succeeded(2) /\ gen[1].config.OutputFile # gen[2].config.OutputFile) =>
        /\ gen[1].wrote \cap gen[2].wrote = {}
        /\ \A p \in Procs :
             /\ HoldsScript(gen[p].config.OutputFile, gen[p].content)
             /\ Len(Requirements(gen[p].config)) > 0 =>
                  HoldsRequirements(RequirementsPath(gen[p].config.OutputFile), gen[p].config)

\* C6 as stated: whenever Generate returns an error it has written none of its files.
C6_ErrorMeansNothingWritten ==
    (gen[1].pc = "returned" /\ gen[1].err # "") => gen[1].wrote = {}

\* C6 as amended: a validation error means nothing was written; a script write error
\* means the manifest was not written; a manifest write error leaves the complete
\* script on disk.
C6_ErrorByStage ==
    gen[1].pc = "returned" =>
        /\ gen[1].err = "configuration validation failed" => gen[1].wrote = {}
        /\ gen[1].err = "file writing failed" => gen[1].wrote \subseteq {gen[1].config.OutputFile}
        /\ gen[1].err = "requirements generation failed" =>
             /\ gen[1].config.OutputFile \in gen[1].wrote
             /\ HoldsScript(gen[1].config.OutputFile, gen[1].content)

C6_Witness ==
    /\ gen[1].pc = "returned"
    /\ gen[1].err = "requirements generation failed"
    /\ HoldsScript(gen[1].config.OutputFile, gen[1].content)

\* C7: when validation fails Generate returns the validation error, renders nothing
\* and neither creates nor modifies any file.
C7_ValidationFailsFast ==
    (gen[1].pc \in {"write", "requirements", "returned"}
       /\ validateConfig(gen[1].config) # "") =>
        /\ gen[1].pc = "returned"
        /\ gen[1].err = "configuration validation failed"
        /\ gen[1].content = NoScript
        /\ rendered = {}
        /\ gen[1].wrote = {}
        /\ \A path \in Paths : fs[path].kind \in {"absent", "old"}

C7_Witness ==
    /\ gen[1].pc = "returned"
    /\ gen[1].err = "configuration validation failed"
    /\ gen[1].config.UI.Precision = 21
    /\ fs["out/calc.py"] = OldFile

\* C8: validation accepts exactly the configurations with a non-empty output path,
\* a non-empty project name and 1 <= precision <= 20.
C8_ValidationBoundaries ==
    (frontend = "validate" /\ pc = "done") =>
        (out.err = "" <=> /\ config.OutputFile # ""
                          /\ config.ProjectName # ""
                          /\ config.UI.Precision >= 1
                          /\ config.UI.Precision <= 20)

C8_Witness ==
    /\ frontend = "validate"
    /\ pc = "done"
    /\ config.UI.Precision = 20
    /\ config.OutputFile # ""
    /\ config.ProjectName # ""
    /\ out.err = ""

\* C9: after the front end's feature resolution step (the --features loop, the
\* wizard's feature prompts) every enabled feature of the entailment table has all
\* its implied libraries enabled.
C9_EntailmentAfterFeatureStep ==
    (\/ frontend = "generate" /\ pc \in {"features", "generate", "done"}
     \/ frontend = "interactive" /\ pc = "features"
     \/ frontend = "interactive" /\ pc = "libraries" /\ idx = 1) =>
        \A f \in EntailedFeatures \cap config.Features : EntailmentTable(f) \subseteq config.Libraries

C9_Witness ==
    /\ frontend = "generate"
    /\ pc = "generate"
    /\ ~flags.math
    /\ {"DataAnalysis", "Trigonometric"} \subseteq config.Features
    /\ {"UseNumpy", "UsePandas", "UseMath"} \subseteq config.Libraries

\* C10: resolving an already resolved configuration again (applyLibrariesFromFlags,
\* then applyFeaturesFromFlags, with the same lists) changes no flag.
C10_ResolveIdempotent ==
    (frontend = "resolve" /\ pc = "done") =>
        /\ out.twice.config = out.once.config
        /\ out.twice.err = out.once.err

C10_Witness ==
    /\ frontend = "resolve"
    /\ pc = "done"
    /\ Len(args.libraries) > 0
    /\ Len(args.features) > 0
    /\ out.once.err = ""
    /\ out.once.config.Libraries # config.Libraries
    /\ out.once.config.Features # config.Features

\* the import, function and main segments of both renderers for configuration c
Segments(c) ==
    [Imports |-> generateImports(c), Functions |-> generateFunctions(c),
     MainContent |-> generateMainContent(c), GUIImports |-> generateGUIImports(c),
     GUIFunctions |-> generateGUIFunctions(c), GUIMainContent |-> generateGUIMainContent(c)]

\* C11: the same valid library and feature names listed in two orders resolve to the
\* same flag values and give the same import, function and main segments.
C11_OrderIndependent ==
    (frontend = "order" /\ pc = "done" /\ out.first.err = "") =>
        /\ out.second.err = ""
        /\ out.second.config = out.first.config
        /\ Segments(out.second.config) = Segments(out.first.config)

C11_Witness ==
    /\ frontend = "order"
    /\ pc = "done"
    /\ out.first.err = ""
    /\ out.features2 # args.features
    /\ {"Statistical", "EquationSolver"} \subseteq out.second.config.Features
    /\ generateFunctions(out.second.config) = generateFunctions(out.first.config)
    /\ Range(generateStatisticalFunctions) \subseteq Range(generateFunctions(out.second.config))

PlotlyImports == {"import plotly.graph_objects as go", "import plotly.express as px"}

\* C12: a configuration with the plotly library flag on and the plotting feature off,
\* and one with the plotting feature on and the library flag off, both get the plotly
\* import lines in the script and the plotly pin in requirements.txt.
C12_PlotlyByFlagOrFeature ==
    ("UsePlotly" \in gen[1].config.Libraries \/ "Plotting" \in gen[1].config.Features) =>
        /\ Rendered(1) => PlotlyImports \subseteq Range(gen[1].content.Imports)
        /\ Succeeded(1) =>
             /\ fs[RequirementsPath(gen[1].config.OutputFile)].kind = "requirements"
             /\ "plotly>=5.0.0" \in Range(fs[RequirementsPath(gen[1].config.OutputFile)].body)

C12_Witness ==
    /\ Succeeded(1)
    /\ "Plotting" \in gen[1].config.Features
    /\ "UsePlotly" \notin gen[1].config.Libraries
    /\ gen[1].config.UI.Style = "cli"
    /\ PlotlyImports \subseteq Range(fs[gen[1].config.OutputFile].body.Imports)
    /\ "plotly>=5.0.0" \in Range(fs[RequirementsPath(gen[1].config.OutputFile)].body)

\* a step of handle 1 changes the file at path
Writes(path) == fs'[path] # fs[path]

\* C13: the script file is written only after validation and rendering are done, the
\* manifest only after the script write has succeeded; a failing manifest write leaves
\* the script on disk and Generate returns an error.
C13_WriteOrder ==
    /\ [][\A path \in Paths : Writes(path) =>
            \/ /\ path = gen[1].config.OutputFile
               /\ gen[1].pc = "write"
               /\ validateConfig(gen[1].config) = ""
               /\ gen[1].content = RenderScript(gen[1].config, clock)
            \/ /\ path = RequirementsPath(gen[1].config.OutputFile)
               /\ gen[1].pc = "requirements"
               /\ gen[1].err = ""
               /\ HoldsScript(gen[1].config.OutputFile, gen[1].content)]_vars
    /\ [](gen[1].err = "requirements generation failed" =>
            /\ gen[1].pc = "returned"
            /\ HoldsScript(gen[1].config.OutputFile, gen[1].content))

C13_Witness ==
    /\ frontend = "generate"
    /\ gen[1].pc = "returned"
    /\ gen[1].err = "requirements generation failed"
    /\ fs[RequirementsPath(gen[1].config.OutputFile)] = Truncated
    /\ fs[gen[1].config.OutputFile] = ScriptFile(gen[1].content)

\* the position of x in seq (x occurs once)
IndexOf(seq, x) == CHOOSE i \in DOMAIN seq : seq[i] = x

\* a and b hold the same elements in the same relative order
SameOrder(a, b) ==
    /\ Range(a) = Range(b)
    /\ \A x \in Range(a), y \in Range(a) :
         IndexOf(a, x) < IndexOf(a, y) <=> IndexOf(b, x) < IndexOf(b, y)

\* C14: a feature/library predicate contributes a fragment to the GUI function segment
\* if and only if it contributes one to the CLI function segment, and the fragments
\* appear in the same relative order in both.
C14_SameFunctionPredicates ==
    Rendered(1) =>
        SameOrder(FunctionPredicates(gen[1].config), GUIFunctionPredicates(gen[1].config))

TrigonometricNames == {"sin", "cos", "tan", "asin", "acos", "atan"}
LogarithmicNames == {"log", "ln", "log10", "log2"}

\* the names the rendered script of handle 1 binds for the expression evaluator
EvaluatorNames ==
    IF gen[1].config.UI.Style = "gui"
    THEN GUISafeDict(gen[1].config)
    ELSE gen[1].content.MainContent.safe_dict

\* C15: the script binds the trigonometric names for user input only if the
\* trigonometric feature is on, and the logarithmic names only if the logarithmic
\* feature is on, CLI and GUI alike.
C15_NamesOnlyIfFeature ==
    Rendered(1) =>
        /\ EvaluatorNames \cap TrigonometricNames # {} =>
             "Trigonometric" \in gen[1].config.Features
        /\ EvaluatorNames \cap LogarithmicNames # {} =>
             "Logarithmic" \in gen[1].config.Features

\* the names the script of handle 1 has bound to modules by its import lines
ModuleNames == {ImportedModule(line) : line \in Range(gen[1].content.Imports)} \ {""}

\* C16: the symbol table of the CLI script has builtins emptied and binds only single
\* whitelisted functions and constants; no name is bound to a whole module.
C16_NoModuleInSymbolTable ==
    (Rendered(1) /\ gen[1].config.UI.Style # "gui") =>
        /\ "__builtins__" \in gen[1].content.MainContent.safe_dict
        /\ SafeDictValue("__builtins__") = "{}"
        /\ \A name \in gen[1].content.MainContent.safe_dict :
             SafeDictValue(name) \notin ModuleNames

\* the script is a CLI artifact: the Calculator class with its read-evaluate loop
\* machinery and the Calculator entry stanza, and no window class
IsCliArtifact(script) ==
    /\ script.MainContent.class = "Calculator"
    /\ "evaluate_expression" \in Range(script.MainContent.methods)
    /\ script.Entry = <<"calculator = Calculator()", "calculator.run()">>

\* the script is a GUI artifact: the window class, no read-evaluate loop and no
\* Calculator entry stanza
IsGuiArtifact(script) ==
    /\ script.MainContent.class = "CalculatorGUI"
    /\ {"methods", "branches", "run"} \cap DOMAIN script.MainContent = {}
    /\ "calculator = Calculator()" \notin Range(script.Entry) \cup Range(script.MainContent.entry)

\* C17: each Generate call runs one renderer, the GUI renderer when ui.style is gui and
\* the CLI renderer otherwise; a GUI artifact holds neither the CLI read-evaluate loop
\* nor the Calculator entry stanza, a CLI artifact does not hold the window class.
C17_OneRendererByStyle ==
    Rendered(1) =>
        /\ rendered = {[config |-> gen[1].config, content |-> gen[1].content]}
        /\ IF gen[1].config.UI.Style = "gui"
           THEN IsGuiArtifact(gen[1].content)
           ELSE IsCliArtifact(gen[1].content)

C17_Witness ==
    /\ Succeeded(1)
    /\ gen[1].config.UI.Style = "gui"
    /\ fs[gen[1].config.OutputFile].kind = "script"
    /\ IsGuiArtifact(fs[gen[1].config.OutputFile].body)

\* C18: in a GUI script every conditional button group the renderer creates is given
\* grid coordinates by the layout of the calculator type; no created group is left
\* unplaced.
C18_CreatedGroupsPlaced ==
    (Rendered(1) /\ gen[1].config.UI.Style = "gui") =>
        \A group \in Range(gen[1].content.MainContent.buttonGroups) :
            \A button \in Range(GroupButtons(group)) :
                \E g \in gen[1].content.MainContent.layout.placed :
                    g.group = group /\ g.button = button

Themes == {"light", "dark", "colorful"}

\* the styling fragment apply_theme gets for configuration c
ThemeFragment(c) == generateGUIMainContent(c).theme

\* C19: the GUI styling fragment depends on ui.theme alone, and the themes light, dark
\* and colorful select three different fragments.
C19_ThreeThemeFragments ==
    (Rendered(1) /\ gen[1].config.UI.Style = "gui" /\ gen[1].config.UI.Theme \in Themes) =>
        /\ gen[1].content.MainContent.theme =
              ThemeFragment([GetDefaultConfig EXCEPT !.UI.Theme = gen[1].config.UI.Theme])
        /\ \A other \in Themes \ {gen[1].config.UI.Theme} :
              ThemeFragment([gen[1].config EXCEPT !.UI.Theme = other])
                  # gen[1].content.MainContent.theme

\* C20: for both styles the script is laid out header, imports, functions, main, entry
\* stanza, and the header carries the project name, description, author, version and
\* the generation timestamp.
C20_SectionsAndHeader ==
    Rendered(1) =>
        /\ SectionOrder(gen[1].content) = <<"header", "imports", "functions", "main", "entry">>
        /\ gen[1].content.Header.ProjectName = gen[1].config.ProjectName
        /\ gen[1].content.Header.Description = gen[1].config.Description
        /\ gen[1].content.Header.Author = gen[1].config.Author
        /\ gen[1].content.Header.Version = "1.0.0"
        /\ gen[1].content.Header.Generated = FormatTime(clock)

\* the CLI script holds the class, the command branch of the main loop and the handler
\* of a feature (memory: Memory, mem, handle_memory_commands)
HasClass(script, class) == class \in Range(script.Functions)
HasBranch(script, prefix) == prefix \in Range(script.MainContent.branches)
HasHandler(script, handler) == handler \in Range(script.MainContent.methods)

\* C21 as stated: a CLI script with memory enabled holds the memory class and a mem
\* branch in the main loop, and a numpy import only with the numpy flag; with memory
\* disabled it holds neither class, branch nor handler; likewise hist for history.
C21_MemoryAndHistoryEmitted ==
    (Rendered(1) /\ gen[1].config.UI.Style # "gui") =>
        LET c == gen[1].config
            script == gen[1].content
        IN /\ "Memory" \in c.Features =>
                HasClass(script, "Memory") /\ HasBranch(script, "mem")
           /\ "Memory" \notin c.Features =>
                /\ ~HasClass(script, "Memory")
                /\ ~HasBranch(script, "mem")
                /\ ~HasHandler(script, "handle_memory_commands")
           /\ "History" \in c.Features =>
                HasClass(script, "History") /\ HasBranch(script, "hist")
           /\ "History" \notin c.Features =>
                /\ ~HasClass(script, "History")
                /\ ~HasBranch(script, "hist")
                /\ ~HasHandler(script, "handle_history_commands")
           /\ "import numpy as np" \in Range(script.Imports) => "UseNumpy" \in c.Libraries

\* C21 as amended: the class and the handler follow the feature; the command branch is
\* there exactly when the feature is on and the script has a main loop (Interactive).
C21_BranchNeedsMainLoop ==
    (Rendered(1) /\ gen[1].config.UI.Style # "gui") =>
        LET c == gen[1].config
            script == gen[1].content
        IN /\ HasClass(script, "Memory") <=> "Memory" \in c.Features
           /\ HasHandler(script, "handle_memory_commands") <=> "Memory" \in c.Features
           /\ HasBranch(script, "mem") <=> ("Memory" \in c.Features /\ c.Interactive)
           /\ HasClass(script, "History") <=> "History" \in c.Features
           /\ HasHandler(script, "handle_history_commands") <=> "History" \in c.Features
           /\ HasBranch(script, "hist") <=> ("History" \in c.Features /\ c.Interactive)
           /\ "import numpy as np" \in Range(script.Imports) <=> "UseNumpy" \in c.Libraries

C21_Witness ==
    /\ Succeeded(1)
    /\ gen[1].config.UI.Style = "cli"
    /\ gen[1].config.Type = BasicCalculator
    /\ "Memory" \in gen[1].config.Features
    /\ ~gen[1].config.Interactive
    /\ fs[gen[1].config.OutputFile].kind = "script"
    /\ HasClass(fs[gen[1].config.OutputFile].body, "Memory")
    /\ ~HasBranch(fs[gen[1].config.OutputFile].body, "mem")

\* the place of an import line's group in the fixed order: standard utilities, history
\* support, numpy, pandas, scipy, sympy, plotly and cmath
ImportGroup(line) ==
    CASE line \in {"import json", "from datetime import datetime"} -> 2
      [] line = "import numpy as np" -> 3
      [] line = "import pandas as pd" -> 4
      [] line \in {"import scipy as sp", "from scipy import stats, optimize, integrate"} -> 5
      [] line \in {"import sympy as sym",
                   "from sympy import symbols, solve, diff, integrate as sym_integrate"} -> 6
      [] line \in PlotlyImports \cup {"import cmath"} -> 7
      [] OTHER -> 1

\* C22: in the import segment of either renderer each import line occurs at most once
\* and the groups come in the fixed order, whichever flags brought a line in.
C22_ImportsOnceInOrder ==
    Rendered(1) =>
        LET imports == gen[1].content.Imports IN
        \A i \in DOMAIN imports, j \in DOMAIN imports :
            i < j => /\ imports[i] # imports[j]
                     /\ ImportGroup(imports[i]) <= ImportGroup(imports[j])

C22_Witness ==
    /\ Succeeded(1)
    /\ gen[1].config.UI.Style = "gui"
    /\ {"Plotting", "History"} \subseteq gen[1].config.Features
    /\ "UsePlotly" \in gen[1].config.Libraries
    /\ PlotlyImports \subseteq Range(gen[1].content.Imports)
    /\ "import json" \in Range(gen[1].content.Imports)

FrontEndErrors == {"invalid calculator type", "unknown library", "unknown feature"}

\* C23: when the generate command meets an unknown library name, an unknown feature
\* name or an invalid calculator type it returns the error before NewGenerator:
\* Generate is never called and no file is written.
C23_FrontEndErrorBeforeGenerate ==
    (frontend = "generate" /\ cmdErr \in FrontEndErrors) =>
        /\ pc = "failed"
        /\ gen[1] = IdleGenerator
        /\ calls = 0
        /\ rendered = {}
        /\ printed = {}
        /\ \A path \in Paths : fs[path].kind \in {"absent", "old"}

C23_Witness ==
    /\ frontend = "generate"
    /\ cmdErr = "unknown feature"
    /\ pc = "failed"
    /\ names = 2
    /\ "UseNumpy" \in config.Libraries
    /\ gen[1].pc = "none"
    /\ fs["calculator.py"] = OldFile

\* C24: after successful Generate calls into one directory, requirements.txt is there
\* only if the latest call's configuration needs a manifest, and then lists that
\* configuration's libraries; no manifest of an earlier call survives.
C24_NoStaleManifest ==
    Succeeded(1) =>
        LET c == gen[1].config
            requirementsPath == RequirementsPath(c.OutputFile)
        IN IF Len(Requirements(c)) > 0
           THEN HoldsRequirements(requirementsPath, c)
           ELSE fs[requirementsPath].kind # "requirements"

StatisticalNames == {"mean", "median", "std"}

\* C25: every function name the CLI script binds in the evaluation symbol table
\* (trigonometric, logarithmic, mean/median/std) is defined by a function fragment of
\* the same script.
C25_BoundNamesDefined ==
    (Rendered(1) /\ gen[1].config.UI.Style # "gui") =>
        \A name \in gen[1].content.MainContent.safe_dict
                      \cap (TrigonometricNames \cup LogarithmicNames \cup StatisticalNames) :
            name \in Range(gen[1].content.Functions)

\* C26: for a configuration that passes validation, every method the generated class
\* invokes on itself and every top-level function it calls is defined in the script.
C26_CalleesDefined ==
    Rendered(1) =>
        IF gen[1].config.UI.Style = "gui"
        THEN GUICalledNames(gen[1].config) \subseteq GUIDefinedNames(gen[1].config)
        ELSE CalledNames(gen[1].config) \subseteq DefinedNames(gen[1].config)

\* C27: in the scientific GUI layout, for every combination of the memory,
\* trigonometric and logarithmic features, every button is placed at a row >= 0 and in
\* columns 0..5, and no two buttons share a grid cell.
C27_ScientificGridSound ==
    (Rendered(1) /\ gen[1].config.UI.Style = "gui"
       /\ gen[1].config.Type = ScientificCalculator) =>
        LET grid == GridCalls(gen[1].content.MainContent.layout) IN
        /\ \A g \in grid : g.row >= 0 /\ GridColumns(g) \subseteq 0..5
        /\ \A g \in grid, h \in grid :
             (g.button # h.button /\ g.row = h.row) => GridColumns(g) \cap GridColumns(h) = {}

C29_MessageIffManifestWritten ==
    (frontend \in {"generate", "interactive"} /\ pc = "done") =>
        ("Requirements file: requirements.txt" \in printed
            <=> RequirementsPath(gen[1].config.OutputFile) \in gen[1].wrote)

\* C30: every configuration the wizard hands to Generate passes validation, whatever
\* was typed at the prompts: the output path and the project name are non-empty and
\* the precision is within 1..20.
C30_WizardConfigValid ==
    (frontend = "interactive" /\ gen[1].pc # "none") =>
        /\ validateConfig(gen[1].config) = ""
        /\ gen[1].config.OutputFile # ""
        /\ gen[1].config.ProjectName # ""
        /\ gen[1].config.UI.Precision \in 1..20

\* the wizard has handed over a configuration with a typed name and a typed precision,
\* and Generate returned without an error
C30_Witness ==
    /\ frontend = "interactive"
    /\ gen[1].pc = "returned"
    /\ gen[1].err = ""
    /\ answered = MaxAnswers
    /\ gen[1].config.ProjectName = "My Calc"
    /\ gen[1].config.UI.Precision = 20

====
